---------------------------- MODULE Spec2Model ----------------------------
(***************************************************************************)
(* A model of src/index.py: the Lexer -> Parser -> Interpreter pipeline    *)
(* that the __main__ block runs over one source text.                      *)
(*                                                                         *)
(* Strings are sequences of one-character strings.  Positions are 0-based  *)
(* as in the source: the character at position p of code is code[p + 1].   *)
(***************************************************************************)
EXTENDS Integers, Sequences, FiniteSets, TLC

VARIABLES code, pc, tokens, ast, idx, variables, results, error

vars == <<code, pc, tokens, ast, idx, variables, results, error>>

(***************************************************************************)
(* Characters and the regular expressions of TOKEN_TYPES                   *)
(***************************************************************************)
DigitSeq == <<"0", "1", "2", "3", "4", "5", "6", "7", "8", "9">>

Digits == {DigitSeq[i] : i \in 1..Len(DigitSeq)}

Letters ==
    {"a", "b", "c", "d", "e", "f", "g", "h", "i", "j", "k", "l", "m",
     "n", "o", "p", "q", "r", "s", "t", "u", "v", "w", "x", "y", "z",
     "A", "B", "C", "D", "E", "F", "G", "H", "I", "J", "K", "L", "M",
     "N", "O", "P", "Q", "R", "S", "T", "U", "V", "W", "X", "Y", "Z"}

\* [a-zA-Z_]
IdentStart == Letters \cup {"_"}

\* \w
WordChars == Letters \cup Digits \cup {"_"}

\* [ \t]
Blanks == {" ", "\t"}

\* The length of the longest run of characters of class cls that starts at
\* position pos of s (the greedy match of cls*).
RECURSIVE RunLen(_, _, _)
RunLen(s, pos, cls) ==
    IF pos < Len(s) /\ s[pos + 1] \in cls
    THEN 1 + RunLen(s, pos + 1, cls)
    ELSE 0

\* The single-character patterns of TOKEN_TYPES.
SingleChar(ttype) ==
    CASE ttype = "ASSIGN"   -> "="
      [] ttype = "PLUS"     -> "+"
      [] ttype = "MINUS"    -> "-"
      [] ttype = "MULTIPLY" -> "*"
      [] ttype = "DIVIDE"   -> "/"
      [] ttype = "LPAREN"   -> "("
      [] ttype = "RPAREN"   -> ")"
      [] ttype = "NEWLINE"  -> "\n"

\* TOKEN_TYPES, in the order the lexer tries them.
TOKEN_TYPES ==
    <<"NUMBER", "IDENTIFIER", "ASSIGN", "PLUS", "MINUS", "MULTIPLY", "DIVIDE",
      "LPAREN", "RPAREN", "NEWLINE", "SKIP", "MISMATCH">>

\* regex.match(code, pos) for the pattern of ttype: the length of the match,
\* 0 when the pattern does not match at pos (no pattern matches the empty
\* string).  Precondition: pos < Len(s).
MatchLen(ttype, s, pos) ==
    CASE ttype = "NUMBER"     -> RunLen(s, pos, Digits)
      [] ttype = "IDENTIFIER" -> IF s[pos + 1] \in IdentStart
                                 THEN 1 + RunLen(s, pos + 1, WordChars)
                                 ELSE 0
      [] ttype = "SKIP"       -> RunLen(s, pos, Blanks)
      [] ttype = "MISMATCH"   -> IF s[pos + 1] # "\n" THEN 1 ELSE 0
      [] OTHER                -> IF s[pos + 1] = SingleChar(ttype) THEN 1 ELSE 0

\* The index in TOKEN_TYPES of the first pattern that matches at pos, 0 when
\* none does (the for loop runs to its else clause).
FirstMatch(s, pos) ==
    LET hits == {i \in 1..Len(TOKEN_TYPES) : MatchLen(TOKEN_TYPES[i], s, pos) > 0}
    IN  IF hits = {} THEN 0 ELSE CHOOSE i \in hits : \A j \in hits : i <= j

Token(ttype, value) == [type |-> ttype, value |-> value]

NoError == [stage |-> "none", kind |-> "none", what |-> <<>>, at |-> 0]

Raise(stage, kind, what, at) == [stage |-> stage, kind |-> kind, what |-> what, at |-> at]

\* Lexer.tokenize: the while loop from position pos with the tokens toks
\* emitted so far.  Returns the token list, or the SyntaxError raised.
RECURSIVE TokenizeFrom(_, _, _)
TokenizeFrom(s, pos, toks) ==
    IF pos >= Len(s)
    THEN [ok |-> TRUE, tokens |-> toks, err |-> NoError]
    ELSE LET i == FirstMatch(s, pos)
         IN  IF i = 0
             THEN [ok |-> FALSE, tokens |-> <<>>,
                   err |-> Raise("lex", "SyntaxError", <<s[pos + 1]>>, pos)]
             ELSE LET n     == MatchLen(TOKEN_TYPES[i], s, pos)
                      value == SubSeq(s, pos + 1, pos + n)
                  IN  TokenizeFrom(s, pos + n,
                                   IF TOKEN_TYPES[i] # "SKIP"
                                   THEN Append(toks, Token(TOKEN_TYPES[i], value))
                                   ELSE toks)

tokenize(s) == TokenizeFrom(s, 0, <<>>)

(***************************************************************************)
(* AST nodes                                                               *)
(***************************************************************************)
\* int(value) of a string of decimal digits.
RECURSIVE IntOf(_)
IntOf(digits) ==
    IF digits = <<>> THEN 0
    ELSE 10 * IntOf(SubSeq(digits, 1, Len(digits) - 1))
         + ((CHOOSE i \in 1..Len(DigitSeq) : DigitSeq[i] = digits[Len(digits)]) - 1)

Number(value) == [node |-> "Number", value |-> IntOf(value)]

Identifier(name) == [node |-> "Identifier", name |-> name]

BinOp(left, op, right) == [node |-> "BinOp", left |-> left, op |-> op, right |-> right]

Assign(ident, e) == [node |-> "Assign", identifier |-> ident, expr |-> e]

(***************************************************************************)
(* Parser.  Each method is an operator over the token list and the         *)
(* parser's position; it returns the node built and the new position, or   *)
(* the SyntaxError raised (which every caller passes on).                  *)
(***************************************************************************)
current_token(toks, pos) ==
    IF pos < Len(toks) THEN toks[pos + 1] ELSE Token("EOF", <<>>)

ParseOk(node, pos) == [ok |-> TRUE, node |-> node, pos |-> pos, err |-> NoError]

ParseFail(what, pos) ==
    [ok |-> FALSE, node |-> <<>>, pos |-> pos,
     err |-> Raise("parse", "SyntaxError", what, pos)]

\* consume(expected_type): the new position, or the error.
consume(toks, pos, expected_type) ==
    IF current_token(toks, pos).type = expected_type
    THEN ParseOk(<<>>, pos + 1)
    ELSE ParseFail(<<"Expected", expected_type, "got", current_token(toks, pos).type>>, pos)

\* An identifier() that takes a NUMBER token as a target too.
identifierOrNumber(toks, pos) ==
    LET token == current_token(toks, pos)
    IN  IF token.type \in {"IDENTIFIER", "NUMBER"}
        THEN ParseOk(Identifier(token.value), pos + 1)
        ELSE ParseFail(<<"Expected identifier", "got", token.type>>, pos)

identifier(toks, pos) ==
    LET token == current_token(toks, pos)
    IN  IF token.type = "IDENTIFIER"
        THEN ParseOk(Identifier(token.value), consume(toks, pos, "IDENTIFIER").pos)
        ELSE ParseFail(<<"Expected identifier", "got", token.type>>, pos)

\* The token types the loop of expr goes on at, and those of term.
ExprOps == {"PLUS", "MINUS"}

\* A term loop that goes on at every operator: one precedence level.
TermOpsFlat == {"MULTIPLY", "DIVIDE", "PLUS", "MINUS"}

TermOps == {"MULTIPLY", "DIVIDE"}

\* node = BinOp(node, op, <right operand>) in the loops of expr and of term.
Combine(node, op, right) == BinOp(node, op, right)

RECURSIVE expr(_, _), ExprLoop(_, _, _), ExprStep(_, _, _, _),
          term(_, _), TermLoop(_, _, _), TermStep(_, _, _, _), factor(_, _)

\* return node, after consume('RPAREN')
ParenClose(node, close) ==
    IF ~close.ok THEN close ELSE ParseOk(node, close.pos)

\* node = self.expr(); self.consume('RPAREN')
ParenInner(toks, inner) ==
    IF ~inner.ok THEN inner
    ELSE ParenClose(inner.node, consume(toks, inner.pos, "RPAREN"))

factor(toks, pos) ==
    LET token == current_token(toks, pos)
    IN  CASE token.type = "NUMBER" ->
               ParseOk(Number(token.value), consume(toks, pos, "NUMBER").pos)
          [] token.type = "IDENTIFIER" ->
               ParseOk(Identifier(token.value), consume(toks, pos, "IDENTIFIER").pos)
          [] token.type = "LPAREN" ->
               ParenInner(toks, expr(toks, consume(toks, pos, "LPAREN").pos))
          [] OTHER -> ParseFail(<<"Unexpected token", token.type>>, pos)

\* node = BinOp(node, op, self.factor()), with right the result of factor()
TermStep(toks, node, op, right) ==
    IF ~right.ok THEN right
    ELSE TermLoop(toks, right.pos, Combine(node, op, right.node))

\* The while loop of term, entered with the node built so far.
TermLoop(toks, pos, node) ==
    IF current_token(toks, pos).type \in TermOps
    THEN TermStep(toks, node, current_token(toks, pos).value,
                  factor(toks, consume(toks, pos, current_token(toks, pos).type).pos))
    ELSE ParseOk(node, pos)

\* The loop of term after node = self.factor()
TermFirst(toks, first) ==
    IF ~first.ok THEN first ELSE TermLoop(toks, first.pos, first.node)

term(toks, pos) == TermFirst(toks, factor(toks, pos))

\* node = BinOp(node, op, self.term()), with right the result of term()
ExprStep(toks, node, op, right) ==
    IF ~right.ok THEN right
    ELSE ExprLoop(toks, right.pos, Combine(node, op, right.node))

\* A loop of expr that takes the whole rest of the expression as the right
\* operand: node = BinOp(node, op, self.expr()).
ExprLoopRight(toks, pos, node) ==
    IF current_token(toks, pos).type \in ExprOps
    THEN ExprStep(toks, node, current_token(toks, pos).value,
                  expr(toks, consume(toks, pos, current_token(toks, pos).type).pos))
    ELSE ParseOk(node, pos)

\* The while loop of expr, entered with the node built so far.
ExprLoop(toks, pos, node) ==
    IF current_token(toks, pos).type \in ExprOps
    THEN ExprStep(toks, node, current_token(toks, pos).value,
                  term(toks, consume(toks, pos, current_token(toks, pos).type).pos))
    ELSE ParseOk(node, pos)

\* The loop of expr after node = self.term()
ExprFirst(toks, first) ==
    IF ~first.ok THEN first ELSE ExprLoop(toks, first.pos, first.node)

expr(toks, pos) == ExprFirst(toks, term(toks, pos))

\* return Assign(identifier, expr), with e the result of expr()
AssignNode(ident, e) ==
    IF ~e.ok THEN e ELSE ParseOk(Assign(ident, e.node), e.pos)

\* expr = self.expr(), with eq the result of consume('ASSIGN')
AssignExpr(toks, ident, eq) ==
    IF ~eq.ok THEN eq ELSE AssignNode(ident, expr(toks, eq.pos))

\* self.consume('ASSIGN'), with ident the result of identifier()
AssignTarget(toks, ident) ==
    IF ~ident.ok THEN ident
    ELSE AssignExpr(toks, ident.node, consume(toks, ident.pos, "ASSIGN"))

assignment(toks, pos) == AssignTarget(toks, identifier(toks, pos))

\* Parser.parse: the while loop from position pos with the statements built
\* so far.  starts lists the positions at which assignment() was called.
\* On an error nothing is returned: the statements built so far are dropped.
RECURSIVE ParseFrom(_, _, _, _), ParseStatement(_, _, _, _, _)

\* A loop of parse that keeps a node for every NEWLINE token.
ParseFromKeepingNewlines(toks, pos, statements, starts) ==
    IF current_token(toks, pos).type = "EOF"
    THEN [ok |-> TRUE, statements |-> statements, starts |-> starts, err |-> NoError]
    ELSE IF current_token(toks, pos).type = "NEWLINE"
    THEN ParseFrom(toks, consume(toks, pos, "NEWLINE").pos,
                   Append(statements, [node |-> "Newline"]), starts)
    ELSE ParseStatement(toks, pos, statements, starts, assignment(toks, pos))

\* statements.append(self.assignment()), with a the result of assignment()
ParseStatement(toks, pos, statements, starts, a) ==
    IF ~a.ok
    THEN [ok |-> FALSE, statements |-> <<>>, starts |-> Append(starts, pos),
          err |-> a.err]
    ELSE ParseFrom(toks, a.pos, Append(statements, a.node), Append(starts, pos))

ParseFrom(toks, pos, statements, starts) ==
    IF current_token(toks, pos).type = "EOF"
    THEN [ok |-> TRUE, statements |-> statements, starts |-> starts, err |-> NoError]
    ELSE IF current_token(toks, pos).type = "NEWLINE"
    THEN ParseFrom(toks, consume(toks, pos, "NEWLINE").pos, statements, starts)
    ELSE ParseStatement(toks, pos, statements, starts, assignment(toks, pos))

parse(toks) == ParseFrom(toks, 0, <<>>, <<>>)

(***************************************************************************)
(* Numbers.  A Python int is an integer; a Python float is an IEEE 754     *)
(* binary64 value (-1)^s * m * 2^e, kept exactly: m is a natural number    *)
(* held as a little-endian sequence of limbs in base Base, odd unless the  *)
(* value is zero (then m = <<>> and e = 0).  The exponent range of         *)
(* binary64 (overflow to inf, subnormals) is not modelled: the inputs      *)
(* explored stay far inside it.                                            *)
(***************************************************************************)
Base == 2^15

RECURSIVE BitLenSmall(_)
BitLenSmall(x) == IF x = 0 THEN 0 ELSE 1 + BitLenSmall(x \div 2)

LimbBits == BitLenSmall(Base - 1)

Limb(a, i) == IF i <= Len(a) THEN a[i] ELSE 0

RECURSIVE BNorm(_)
BNorm(a) ==
    IF a # <<>> /\ a[Len(a)] = 0 THEN BNorm(SubSeq(a, 1, Len(a) - 1)) ELSE a

RECURSIVE BFromInt(_)
BFromInt(n) == IF n = 0 THEN <<>> ELSE <<n % Base>> \o BFromInt(n \div Base)

RECURSIVE BAddFrom(_, _, _, _)
BAddFrom(a, b, i, c) ==
    IF i > Len(a) /\ i > Len(b)
    THEN IF c = 0 THEN <<>> ELSE <<c>>
    ELSE LET x == Limb(a, i) + Limb(b, i) + c
         IN  <<x % Base>> \o BAddFrom(a, b, i + 1, x \div Base)

BAdd(a, b) == BAddFrom(a, b, 1, 0)

\* a - b for a >= b
RECURSIVE BSubFrom(_, _, _, _)
BSubFrom(a, b, i, borrow) ==
    IF i > Len(a) THEN <<>>
    ELSE LET x == Limb(a, i) - Limb(b, i) - borrow
         IN  IF x < 0
             THEN <<x + Base>> \o BSubFrom(a, b, i + 1, 1)
             ELSE <<x>> \o BSubFrom(a, b, i + 1, 0)

BSub(a, b) == BNorm(BSubFrom(a, b, 1, 0))

\* -1, 0, 1 as a < b, a = b, a > b
RECURSIVE BCmpAt(_, _, _)
BCmpAt(a, b, i) ==
    IF i = 0 THEN 0
    ELSE IF a[i] < b[i] THEN -1
    ELSE IF a[i] > b[i] THEN 1
    ELSE BCmpAt(a, b, i - 1)

BCmp(a, b) ==
    IF Len(a) < Len(b) THEN -1
    ELSE IF Len(a) > Len(b) THEN 1
    ELSE BCmpAt(a, b, Len(a))

\* a * k for 0 <= k < Base
RECURSIVE BMulSmallFrom(_, _, _, _)
BMulSmallFrom(a, k, i, c) ==
    IF i > Len(a)
    THEN IF c = 0 THEN <<>> ELSE <<c>>
    ELSE LET x == a[i] * k + c
         IN  <<x % Base>> \o BMulSmallFrom(a, k, i + 1, x \div Base)

BMulSmall(a, k) == BNorm(BMulSmallFrom(a, k, 1, 0))

RECURSIVE BMul(_, _)
BMul(a, b) ==
    IF b = <<>> THEN <<>>
    ELSE BNorm(BAdd(BMulSmall(a, b[1]), <<0>> \o BMul(a, Tail(b))))

\* a \div k and a % k for 0 < k <= Base, from limb i down
RECURSIVE BDivSmallAt(_, _, _, _)
BDivSmallAt(a, k, i, rem) ==
    IF i = 0 THEN [q |-> <<>>, r |-> rem]
    ELSE LET cur  == rem * Base + a[i]
             rest == BDivSmallAt(a, k, i - 1, cur % k)
         IN  [q |-> Append(rest.q, cur \div k), r |-> rest.r]

BDivSmall(a, k) == BNorm(BDivSmallAt(a, k, Len(a), 0).q)

Zeros(n) == [i \in 1..n |-> 0]

\* a * 2^k
BShl(a, k) ==
    IF a = <<>> THEN <<>>
    ELSE Zeros(k \div LimbBits) \o BMulSmall(a, 2^(k % LimbBits))

\* a \div 2^k
BShr(a, k) ==
    IF k \div LimbBits >= Len(a) THEN <<>>
    ELSE BDivSmall(SubSeq(a, k \div LimbBits + 1, Len(a)), 2^(k % LimbBits))

BitLen(a) == IF a = <<>> THEN 0 ELSE LimbBits * (Len(a) - 1) + BitLenSmall(a[Len(a)])

\* bit i (from 0) of a
BBit(a, i) == (Limb(a, i \div LimbBits + 1) \div 2^(i % LimbBits)) % 2

\* The x in lo..hi-1 with x * d <= r < (x + 1) * d, given lo * d <= r < hi * d.
RECURSIVE QuotientDigit(_, _, _, _)
QuotientDigit(r, d, lo, hi) ==
    IF hi - lo = 1 THEN lo
    ELSE LET mid == (lo + hi) \div 2
         IN  IF BCmp(BMulSmall(d, mid), r) <= 0
             THEN QuotientDigit(r, d, mid, hi)
             ELSE QuotientDigit(r, d, lo, mid)

\* n \div d and n % d by long division, from limb i of n down, with the
\* remainder rem so far
RECURSIVE BDivModAt(_, _, _, _)
BDivModAt(n, d, i, rem) ==
    IF i = 0 THEN [q |-> <<>>, r |-> rem]
    ELSE LET cur  == BNorm(<<n[i]>> \o rem)
             qd   == QuotientDigit(cur, d, 0, Base)
             rest == BDivModAt(n, d, i - 1, BSub(cur, BMulSmall(d, qd)))
         IN  [q |-> Append(rest.q, qd), r |-> rest.r]

BDivMod(n, d) ==
    IF d = <<1>> THEN [q |-> n, r |-> <<>>]
    ELSE LET qr == BDivModAt(n, d, Len(n), <<>>)
         IN  [q |-> BNorm(qr.q), r |-> qr.r]

\* the number of trailing zero bits of x > 0
RECURSIVE TrailingZerosSmall(_)
TrailingZerosSmall(x) == IF x % 2 = 1 THEN 0 ELSE 1 + TrailingZerosSmall(x \div 2)

\* the number of trailing zero bits of a # 0
RECURSIVE BTrailingZeros(_)
BTrailingZeros(a) ==
    IF a[1] = 0 THEN LimbBits + BTrailingZeros(Tail(a))
    ELSE TrailingZerosSmall(a[1])

\* The number of significand bits of a binary64.
MantBits == 53

PyInt(v) == [t |-> "int", v |-> v]

\* The float (-1)^s * m * 2^e, for m of at most MantBits bits.
PyFloatOdd(s, m, e, z) == [t |-> "float", s |-> s, m |-> BShr(m, z), e |-> e + z]

PyFloat(s, m, e) ==
    IF m = <<>> THEN [t |-> "float", s |-> s, m |-> <<>>, e |-> 0]
    ELSE PyFloatOdd(s, m, e, BTrailingZeros(m))

PyNone == [t |-> "None"]

\* Whether a significand mant rounds up: c compares the bits dropped with
\* half a unit in the last place, sticky says the division left a remainder.
RoundsUp(mant, c, sticky) ==
    \/ c > 0
    \/ c = 0 /\ sticky
    \/ c = 0 /\ ~sticky /\ BBit(mant, 0) = 1

RoundMant(s, mant, c, sticky, e) ==
    PyFloat(s, IF RoundsUp(mant, c, sticky) THEN BAdd(mant, <<1>>) ELSE mant, e)

\* The low x bits of q compared with 2^(x-1): -1, 0, 1
LowCmp(q, x) == BCmp(BSub(q, BShl(BShr(q, x), x)), BShl(<<1>>, x - 1))

\* q of more than MantBits bits, in units of 2^e, cut to MantBits bits
RoundAt(s, q, sticky, x, e) ==
    RoundMant(s, BShr(q, x), LowCmp(q, x), sticky, e + x)

RoundScaled(s, qr, e) ==
    RoundAt(s, qr.q, qr.r # <<>>, BitLen(qr.q) - MantBits, e)

\* n / d scaled by 2^k so that the integer quotient has MantBits + 2 or
\* MantBits + 3 bits
RoundShift(s, n, d, e, k) ==
    RoundScaled(s,
                IF k >= 0 THEN BDivMod(BShl(n, k), d) ELSE BDivMod(n, BShl(d, -k)),
                e - k)

\* The binary64 nearest to (-1)^s * (n / d) * 2^e, ties to even.
RoundNearestEven(s, n, d, e) ==
    IF n = <<>> THEN PyFloat(s, <<>>, 0)
    ELSE RoundShift(s, n, d, e, BitLen(d) + MantBits + 2 - BitLen(n))

Abs(v) == IF v < 0 THEN -v ELSE v

\* int -> float, exact for |v| < 2^MantBits
ToFloat(x) ==
    IF x.t = "float" THEN x
    ELSE PyFloat(IF x.v < 0 THEN 1 ELSE 0, BFromInt(Abs(x.v)), 0)

FNeg(a) == [a EXCEPT !.s = 1 - @]

\* |am - bm| with the sign of the larger, c the comparison of am with bm
FAddOpposite(sa, am, sb, bm, c, e) ==
    IF c = 0 THEN PyFloat(0, <<>>, 0)
    ELSE RoundNearestEven(IF c > 0 THEN sa ELSE sb,
                          IF c > 0 THEN BSub(am, bm) ELSE BSub(bm, am), <<1>>, e)

\* (-1)^sa * am * 2^e + (-1)^sb * bm * 2^e
FAddAligned(sa, am, sb, bm, e) ==
    IF sa = sb THEN RoundNearestEven(sa, BAdd(am, bm), <<1>>, e)
    ELSE FAddOpposite(sa, am, sb, bm, BCmp(am, bm), e)

Min(x, y) == IF x < y THEN x ELSE y

FAdd(a, b) ==
    FAddAligned(a.s, BShl(a.m, a.e - Min(a.e, b.e)),
                b.s, BShl(b.m, b.e - Min(a.e, b.e)), Min(a.e, b.e))

FSub(a, b) == FAdd(a, FNeg(b))

FMul(a, b) == RoundNearestEven((a.s + b.s) % 2, BMul(a.m, b.m), <<1>>, a.e + b.e)

\* for b # 0
FDiv(a, b) == RoundNearestEven((a.s + b.s) % 2, a.m, b.m, a.e - b.e)

IsZero(x) == IF x.t = "int" THEN x.v = 0 ELSE x.m = <<>>

\* Python's ==  on two numbers
NumEq(x, y) ==
    IF x.t = "int" /\ y.t = "int" THEN x.v = y.v
    ELSE (IsZero(x) /\ IsZero(y)) \/ ToFloat(x) = ToFloat(y)

PyAdd(l, r) ==
    IF l.t = "int" /\ r.t = "int" THEN PyInt(l.v + r.v) ELSE FAdd(ToFloat(l), ToFloat(r))

PySub(l, r) ==
    IF l.t = "int" /\ r.t = "int" THEN PyInt(l.v - r.v) ELSE FSub(ToFloat(l), ToFloat(r))

PyMul(l, r) ==
    IF l.t = "int" /\ r.t = "int" THEN PyInt(l.v * r.v) ELSE FMul(ToFloat(l), ToFloat(r))

\* left // right on ints
PyFloorDiv(l, r) ==
    IF l.t = "int" /\ r.t = "int" THEN PyInt(l.v \div r.v) ELSE FDiv(ToFloat(l), ToFloat(r))

\* left / right for right # 0: true division, a float whatever the operands
PyTrueDiv(l, r) == FDiv(ToFloat(l), ToFloat(r))


(***************************************************************************)
(* Interpreter.  evaluate(node) is an operator over the node and the       *)
(* interpreter's variables; it returns the value and the variables after   *)
(* the call, or the exception raised and the variables at that moment.     *)
(***************************************************************************)
EvalOk(value, env) == [ok |-> TRUE, value |-> value, variables |-> env, err |-> NoError]

EvalFail(kind, what, env) ==
    [ok |-> FALSE, value |-> PyNone, variables |-> env,
     err |-> Raise("eval", kind, what, 0)]

\* A store that keeps the value a name already has.
StoreFirstWins(env, name, value) ==
    [n \in DOMAIN env \cup {name} |-> IF n \in DOMAIN env THEN env[n] ELSE value]

\* self.variables[name] = value
Store(env, name, value) ==
    [n \in DOMAIN env \cup {name} |-> IF n = name THEN value ELSE env[n]]

\* The BinOp branch once both operands are evaluated.  An operator outside
\* the four falls through the if chain: the method returns None.
ApplyOp(op, left, right, env) ==
    IF left.t = "None" \/ right.t = "None"
    THEN EvalFail("TypeError", op, env)
    ELSE CASE op = <<"+">> -> EvalOk(PyAdd(left, right), env)
           [] op = <<"-">> -> EvalOk(PySub(left, right), env)
           [] op = <<"*">> -> EvalOk(PyMul(left, right), env)
           [] op = <<"/">> -> IF IsZero(right)
                              THEN EvalFail("ZeroDivisionError", op, env)
                              ELSE EvalOk(PyTrueDiv(left, right), env)
           [] OTHER        -> EvalOk(PyNone, env)

\* A lookup that gives a missing name the value 0 and keeps it.
LookupDefault(name, env) ==
    IF name \in DOMAIN env
    THEN EvalOk(env[name], env)
    ELSE EvalOk(PyInt(0), Store(env, name, PyInt(0)))

\* The Identifier branch.
Lookup(name, env) ==
    IF name \in DOMAIN env
    THEN EvalOk(env[name], env)
    ELSE EvalFail("NameError", name, env)

\* The Assign branch once the expression is evaluated without an exception.
AssignValue(name, value, env) == EvalOk(value, Store(env, name, value))

RECURSIVE evaluate(_, _)
evaluate(node, env) ==
    CASE node.node = "Number"     -> EvalOk(PyInt(node.value), env)
      [] node.node = "Identifier" -> Lookup(node.name, env)
      [] node.node = "BinOp"      ->
           LET left == evaluate(node.left, env)
           IN  IF ~left.ok THEN left
               ELSE LET right == evaluate(node.right, left.variables)
                    IN  IF ~right.ok THEN right
                        ELSE ApplyOp(node.op, left.value, right.value, right.variables)
      [] node.node = "Assign"     ->
           LET value == evaluate(node.expr, env)
           IN  IF ~value.ok THEN value
               ELSE AssignValue(node.identifier.name, value.value, value.variables)
      [] OTHER -> EvalFail("ValueError", <<node.node>>, env)

(***************************************************************************)
(* The run of the __main__ block over the source text code.                *)
(***************************************************************************)
\* Interpreter.__init__
NoVariables == [n \in {} |-> PyNone]

\* tokens = lexer.tokenize()
Tokenize ==
    /\ pc = "lex"
    /\ LET r == tokenize(code)
       IN  IF r.ok
           THEN tokens' = r.tokens /\ pc' = "parse" /\ error' = error
           ELSE tokens' = tokens /\ pc' = "lex_error" /\ error' = r.err
    /\ UNCHANGED <<code, ast, idx, variables, results>>

\* ast = parser.parse()
Parse ==
    /\ pc = "parse"
    /\ LET r == parse(tokens)
       IN  IF r.ok
           THEN ast' = r.statements /\ pc' = "eval" /\ error' = error
           ELSE ast' = ast /\ pc' = "parse_error" /\ error' = r.err
    /\ UNCHANGED <<code, tokens, idx, variables, results>>

\* One turn of  for node in ast: result = interpreter.evaluate(node)
Evaluate ==
    /\ pc = "eval"
    /\ idx < Len(ast)
    /\ LET r == evaluate(ast[idx + 1], variables)
       IN  /\ variables' = r.variables
           /\ IF r.ok
              THEN results' = Append(results, r.value) /\ idx' = idx + 1
                   /\ pc' = pc /\ error' = error
              ELSE results' = results /\ idx' = idx
                   /\ pc' = "eval_error" /\ error' = r.err
    /\ UNCHANGED <<code, tokens, ast>>

\* The loop is over: print("Variables:", interpreter.variables)
Finish ==
    /\ pc = "eval"
    /\ idx = Len(ast)
    /\ pc' = "done"
    /\ UNCHANGED <<code, tokens, ast, idx, variables, results, error>>

Next == Tokenize \/ Parse \/ Evaluate \/ Finish

\* The state in which the run over the source text src starts.
Start(src) ==
    /\ code = src
    /\ pc = "lex"
    /\ tokens = <<>>
    /\ ast = <<>>
    /\ idx = 0
    /\ variables = NoVariables
    /\ results = <<>>
    /\ error = NoError

(***************************************************************************)
(* Source texts                                                            *)
(***************************************************************************)
\* str(n) for n >= 0
RECURSIVE DecimalOf(_)
DecimalOf(n) ==
    IF n < 10 THEN <<DigitSeq[n + 1]>>
    ELSE DecimalOf(n \div 10) \o <<DigitSeq[(n % 10) + 1]>>

RECURSIVE Repeat(_, _)
Repeat(s, n) == IF n = 0 THEN <<>> ELSE s \o Repeat(s, n - 1)

\* Every text of at most MaxRawLen characters of RawChars.
MaxRawLen == 4

RawChars == {"x", "1", "=", "+", "(", ")", "\n", " ", "$"}

RawTexts == UNION {[1..n -> RawChars] : n \in 0..MaxRawLen}

Init == \E src \in RawTexts : Start(src)

Spec == Init /\ [][Next]_vars

\* One assignment to x of an expression of two or three operands, each a
\* literal of 0..MaxOperand or the name z (never assigned), with and without
\* parentheses, blanks around the operators.
MaxOperand == 4

OpChars == {"+", "-", "*", "/"}

ExprTexts ==
    LET atom == {DecimalOf(n) : n \in 0..MaxOperand} \cup {<<"z">>}
    IN  {a \o <<" ", o, " ">> \o b : a \in atom, o \in OpChars, b \in atom}
        \cup {a \o <<" ", o, " ">> \o b \o <<" ", p, " ">> \o c :
                a \in atom, o \in OpChars, b \in atom, p \in OpChars, c \in atom}
        \cup {<<"(">> \o a \o <<" ", o, " ">> \o b \o <<")", " ", p, " ">> \o c :
                a \in atom, o \in OpChars, b \in atom, p \in OpChars, c \in atom}
        \cup {a \o <<" ", o, " ", "(">> \o b \o <<" ", p, " ">> \o c \o <<")">> :
                a \in atom, o \in OpChars, b \in atom, p \in OpChars, c \in atom}

InitExpr == \E e \in ExprTexts : Start(<<"x", " ", "=", " ">> \o e)

SpecExpr == InitExpr /\ [][Next]_vars


\* x = a / b and x = b * (a / b) for a in 0..MaxDividend, b in 0..MaxDivisor.
MaxDividend == 29

MaxDivisor == 7

DivTexts ==
    {DecimalOf(a) \o <<" ", "/", " ">> \o DecimalOf(b) :
        a \in 0..MaxDividend, b \in 0..MaxDivisor}
    \cup {DecimalOf(b) \o <<" ", "*", " ", "(">> \o DecimalOf(a) \o <<" ", "/", " ">>
            \o DecimalOf(b) \o <<")">> :
            a \in 0..MaxDividend, b \in 0..MaxDivisor}

InitDiv == \E e \in DivTexts : Start(<<"x", " ", "=", " ">> \o e)

SpecDiv == InitDiv /\ [][Next]_vars

\* Up to MaxStmts statements, each on a line of its own, with up to MaxGap
\* newlines before the first, between two (at least one) and after the last.
MaxStmts == 2

MaxGap == 3

LineStmts ==
    {<<"x", " ", "=", " ", "1">>,
     <<"y", "=", "x", "+", "2">>,
     <<"x", "=", "(", "1", "+", "2", ")", "*", "3">>}

Newlines(n) == Repeat(<<"\n">>, n)

RECURSIVE LinesOf(_)
LinesOf(n) ==
    IF n = 0 THEN {<<>>}
    ELSE IF n = 1 THEN LineStmts
    ELSE {l \o Newlines(g) \o st : l \in LinesOf(n - 1), g \in 1..MaxGap, st \in LineStmts}

LineTexts ==
    {Newlines(b) \o l \o Newlines(a) :
        b \in 0..MaxGap, a \in 0..MaxGap, l \in UNION {LinesOf(n) : n \in 0..MaxStmts}}

InitLines == \E src \in LineTexts : Start(src)

SpecLines == InitLines /\ [][Next]_vars

\* Up to MaxProg statements of ProgStmts, one per line.
MaxProg == 3

ProgStmts ==
    {<<t, "=">> \o e :
        t \in {"x", "y"},
        e \in {<<"0">>, <<"1">>, <<"x">>, <<"y">>, <<"x", "+", "1">>, <<"y", "+", "1">>}}

RECURSIVE ProgsOf(_)
ProgsOf(n) ==
    IF n = 1 THEN ProgStmts
    ELSE {l \o <<"\n">> \o st : l \in ProgsOf(n - 1), st \in ProgStmts}

ProgTexts == UNION {ProgsOf(n) : n \in 1..MaxProg}

InitProg == \E src \in ProgTexts : Start(src)

SpecProg == InitProg /\ [][Next]_vars


(***************************************************************************)
(* Claims                                                                  *)
(***************************************************************************)
SetMin(S) == CHOOSE x \in S : \A y \in S : x <= y

SetMax(S) == CHOOSE x \in S : \A y \in S : y <= x

X == <<"x">>

\* The characters some pattern other than the catch-all matches.
RealChars ==
    Digits \cup IdentStart \cup Blanks \cup {"=", "+", "-", "*", "/", "(", ")", "\n"}

UnknownAt(s) == {i \in 1..Len(s) : s[i] \notin RealChars}

\* C1: a source with a character that no real pattern matches makes tokenize
\* raise an error about that character; no token list is returned, no token
\* of the catch-all pattern is ever emitted and the parser is not reached.
C1_UnknownCharIsLexError ==
    /\ \A i \in 1..Len(tokens) : tokens[i].type # "MISMATCH"
    /\ (pc # "lex" /\ UnknownAt(code) # {}) =>
           /\ pc = "lex_error"
           /\ error.stage = "lex"
           /\ error.what = <<code[SetMin(UnknownAt(code))]>>
           /\ tokens = <<>>

\* A reference evaluator over the tokens of an expression: the expression
\* is split at its last operator of the lowest precedence outside all
\* parentheses; a parenthesized expression has the value of its inside.
\* Undefined where a divisor is zero or a name has no value.
ParenDepth(toks, i) ==
    Cardinality({j \in 1..(i - 1) : toks[j].type = "LPAREN"})
    - Cardinality({j \in 1..(i - 1) : toks[j].type = "RPAREN"})

TopLevel(toks, types) ==
    {i \in 1..Len(toks) : toks[i].type \in types /\ ParenDepth(toks, i) = 0}

RefOk(v) == [ok |-> TRUE, value |-> v]

RefUndefined == [ok |-> FALSE, value |-> PyNone]

RefApply(type, l, r) ==
    IF ~l.ok \/ ~r.ok THEN RefUndefined
    ELSE CASE type = "PLUS"     -> RefOk(PyAdd(l.value, r.value))
           [] type = "MINUS"    -> RefOk(PySub(l.value, r.value))
           [] type = "MULTIPLY" -> RefOk(PyMul(l.value, r.value))
           [] type = "DIVIDE"   -> IF IsZero(r.value) THEN RefUndefined
                                   ELSE RefOk(PyTrueDiv(l.value, r.value))

RECURSIVE RefValue(_)
RefValue(toks) ==
    LET low   == TopLevel(toks, {"PLUS", "MINUS"})
        high  == TopLevel(toks, {"MULTIPLY", "DIVIDE"})
        split == IF low # {} THEN SetMax(low) ELSE SetMax(high)
    IN  IF low \cup high # {}
        THEN RefApply(toks[split].type,
                      RefValue(SubSeq(toks, 1, split - 1)),
                      RefValue(SubSeq(toks, split + 1, Len(toks))))
        ELSE IF toks[1].type = "LPAREN" THEN RefValue(SubSeq(toks, 2, Len(toks) - 1))
        ELSE IF toks[1].type = "NUMBER" THEN RefOk(PyInt(IntOf(toks[1].value)))
        ELSE RefUndefined

\* The tokens of the expression of the one statement  x = <expression>.
Rhs == SubSeq(tokens, 3, Len(tokens))

\* C2: an assignment of an expression that mixes + - with * / and
\* parentheses is accepted and stores the value of the reference evaluator
\* (* and / bind tighter than + and -, a parenthesized expression is a
\* unit); it fails only where the reference value is undefined.
C2_Precedence ==
    /\ pc \notin {"lex_error", "parse_error"}
    /\ pc = "done" =>
           /\ RefValue(Rhs).ok
           /\ DOMAIN variables = {X}
           /\ variables[X] = RefValue(Rhs).value
    /\ pc = "eval_error" => ~RefValue(Rhs).ok

\* x = 2 + 3 * 4 has stored 14.
C2_Witness ==
    /\ pc = "done"
    /\ code = <<"x", " ", "=", " ", "2", " ", "+", " ", "3", " ", "*", " ", "4">>
    /\ variables[X] = PyInt(14)

\* The names an expression refers to that have no value in env.
RECURSIVE UndefinedNames(_, _)
UndefinedNames(e, env) ==
    CASE e.node = "Identifier" -> IF e.name \in DOMAIN env THEN {} ELSE {e.name}
      [] e.node = "BinOp"      -> UndefinedNames(e.left, env) \cup UndefinedNames(e.right, env)
      [] OTHER                 -> {}

\* C4: evaluating an assignment whose expression refers to a name without a
\* value fails with the undefined-variable error naming such a name, and
\* leaves the variables as they were.
C4_UndefinedVariableError ==
    [][(pc = "eval" /\ idx < Len(ast)
          /\ UndefinedNames(ast[idx + 1].expr, variables) # {})
        => /\ pc' = "eval_error"
           /\ error'.kind = "NameError"
           /\ error'.what \in UndefinedNames(ast[idx + 1].expr, variables)
           /\ variables' = variables]_vars

\* C5: evaluate fails only with the undefined-variable error or the
\* unsupported-node error; a statement that refers to no undefined name is
\* evaluated to a number, which is stored.
C5_OnlyTwoErrorKinds ==
    /\ pc = "eval_error" => error.kind \in {"NameError", "ValueError"}
    /\ (pc \in {"done", "eval_error"}
          /\ \A i \in 1..Len(ast) : UndefinedNames(ast[i].expr, NoVariables) = {})
       => /\ pc = "done"
          /\ variables[X].t \in {"int", "float"}

\* The positions at which parse() starts a statement, and whether the
\* statement at position p starts with IDENTIFIER ASSIGN.
StatementStarts == parse(tokens).starts

IsAssignmentAt(p) ==
    /\ current_token(tokens, p).type = "IDENTIFIER"
    /\ current_token(tokens, p + 1).type = "ASSIGN"

\* C6: when some statement does not start with IDENTIFIER ASSIGN, parse
\* raises a parse error at the offending token and returns nothing, whatever
\* was parsed before: no statement list reaches the interpreter.
C6_OnlyAssignments ==
    pc \notin {"lex", "lex_error", "parse"} =>
        /\ (\E i \in 1..Len(StatementStarts) : ~IsAssignmentAt(StatementStarts[i]))
           => /\ pc = "parse_error"
              /\ error.stage = "parse"
              /\ LET p == StatementStarts[Len(StatementStarts)]
                 IN  /\ ~IsAssignmentAt(p)
                     /\ error.at = IF current_token(tokens, p).type = "IDENTIFIER"
                                   THEN p + 1 ELSE p
        /\ pc = "parse_error" =>
              ast = <<>> /\ idx = 0 /\ results = <<>> /\ variables = NoVariables

\* x=1( : the statement x=1 is parsed, then ( starts no assignment.
C6_Witness ==
    /\ code = <<"x", "=", "1", "(">>
    /\ pc = "parse_error"
    /\ error.at = 3
    /\ Len(StatementStarts) = 2
    /\ ast = <<>>

IsOperand(tok) == tok.type \in {"NUMBER", "IDENTIFIER"}

Operand(tok) == IF tok.type = "NUMBER" THEN Number(tok.value) ELSE Identifier(tok.value)

\* tokens are  x = a op1 b op2 c  with op1 and op2 of one precedence level.
IsChain ==
    /\ Len(tokens) = 7
    /\ IsOperand(tokens[3]) /\ IsOperand(tokens[5]) /\ IsOperand(tokens[7])
    /\ \/ {tokens[4].type, tokens[6].type} \subseteq {"PLUS", "MINUS"}
       \/ {tokens[4].type, tokens[6].type} \subseteq {"MULTIPLY", "DIVIDE"}

\* C9: a op1 b op2 c with op1, op2 of one precedence level is parsed as
\* BinOp(BinOp(a, op1, b), op2, c), and the value stored is (a op1 b) op2 c.
C9_LeftAssociative ==
    (pc \in {"eval", "done", "eval_error"} /\ IsChain) =>
        /\ ast = <<Assign(Identifier(tokens[1].value),
                          BinOp(BinOp(Operand(tokens[3]), tokens[4].value, Operand(tokens[5])),
                                tokens[6].value, Operand(tokens[7])))>>
        /\ pc = "done" =>
             variables[X] =
                 RefApply(tokens[6].type,
                          RefApply(tokens[4].type,
                                   RefOk(PyInt(IntOf(tokens[3].value))),
                                   RefOk(PyInt(IntOf(tokens[5].value)))),
                          RefOk(PyInt(IntOf(tokens[7].value)))).value

\* x = 4 / 2 / 2 has stored 1 (not 4).
C9_Witness ==
    /\ pc = "done"
    /\ code = <<"x", " ", "=", " ", "4", " ", "/", " ", "2", " ", "/", " ", "2">>
    /\ NumEq(variables[X], PyInt(1))
    /\ ast[1].expr.left.node = "BinOp"


\* The statement that last assigned name n before statement k, 0 if none.
LastAssign(n, k) ==
    LET js == {j \in 1..(k - 1) : j <= Len(ast) /\ ast[j].identifier.name = n}
    IN  IF js = {} THEN 0 ELSE SetMax(js)

\* The value of expression e of statement k, every name read as the result
\* of the statement that last assigned it.
RECURSIVE HistValue(_, _)
HistValue(e, k) ==
    CASE e.node = "Number"     -> PyInt(e.value)
      [] e.node = "Identifier" -> IF LastAssign(e.name, k) \in 1..Len(results)
                                  THEN results[LastAssign(e.name, k)]
                                  ELSE PyNone
      [] e.node = "BinOp"      ->
           ApplyOp(e.op, HistValue(e.left, k), HistValue(e.right, k), NoVariables).value
      [] OTHER                 -> PyNone

\* C3: the statements share one environment: each statement's value is that
\* of its expression with every name read as the value of the most recent
\* earlier assignment to it, and the variables are exactly the assigned
\* names, each with its last-assigned value.
C3_SharedEnvironment ==
    pc \in {"eval", "done"} =>
        /\ Len(results) = idx
        /\ \A k \in 1..idx : results[k] = HistValue(ast[k].expr, k)
        /\ DOMAIN variables = {ast[k].identifier.name : k \in 1..idx}
        /\ \A n \in DOMAIN variables : variables[n] = results[LastAssign(n, idx + 1)]

\* x=0, x=1, y=x+1 ends with x = 1 and y = 2.
C3_Witness ==
    /\ pc = "done"
    /\ code = <<"x", "=", "0", "\n", "x", "=", "1", "\n", "y", "=", "x", "+", "1">>
    /\ variables = Store(Store(NoVariables, X, PyInt(1)), <<"y">>, PyInt(2))

StripNewlines(toks) == SelectSeq(toks, LAMBDA t : t.type # "NEWLINE")

AssignAt(toks) == {i \in 1..Len(toks) : toks[i].type = "ASSIGN"}

\* C7: NEWLINE tokens leave no node: a program of assignments on lines of
\* their own parses, whatever the number of newlines around them, to the
\* statements of the same tokens without the NEWLINE tokens: one Assign per
\* assignment, in source order.
C7_NewlinesSkipped ==
    /\ pc # "parse_error"
    /\ pc \in {"eval", "done", "eval_error"} =>
           /\ Len(ast) = Cardinality(AssignAt(tokens))
           /\ ast = parse(StripNewlines(tokens)).statements
           /\ \A k \in 1..Len(ast) :
                  /\ ast[k].node = "Assign"
                  /\ \E i \in AssignAt(tokens) :
                         /\ Cardinality({j \in AssignAt(tokens) : j <= i}) = k
                         /\ ast[k].identifier.name = tokens[i - 1].value

\* Two statements three newlines apart are two nodes.
C7_Witness ==
    /\ pc = "done"
    /\ code = <<"x", " ", "=", " ", "1", "\n", "\n", "\n", "y", "=", "x", "+", "2">>
    /\ Len(ast) = 2
    /\ Len(tokens) = 11

BAbsDiff(a, b) == IF BCmp(a, b) >= 0 THEN BSub(a, b) ELSE BSub(b, a)

\* Whether the float q, times the integer b > 0, is the integer a >= 0.
TimesIs(q, b, a) ==
    /\ q.t = "float"
    /\ q.s = 0 \/ a = 0
    /\ IF q.e >= 0
       THEN BMul(BShl(q.m, q.e), BFromInt(b)) = BFromInt(a)
       ELSE BMul(q.m, BFromInt(b)) = BShl(BFromInt(a), -q.e)

\* Whether |q * b - a| * 2^bits <= a, for integers b > 0 and a >= 0.
TimesIsWithin(q, b, a, bits) ==
    /\ q.t = "float"
    /\ q.s = 0 \/ q.m = <<>>
    /\ IF q.e >= 0
       THEN BCmp(BShl(BAbsDiff(BMul(BShl(q.m, q.e), BFromInt(b)), BFromInt(a)), bits),
                 BFromInt(a)) <= 0
       ELSE BCmp(BShl(BAbsDiff(BMul(q.m, BFromInt(b)), BShl(BFromInt(a), -q.e)), bits),
                 BShl(BFromInt(a), -q.e)) <= 0

\* tokens are  x = a / b
IsQuotient == Len(tokens) = 5 /\ tokens[4].type = "DIVIDE"

\* tokens are  x = b * ( a / b )
IsRoundTrip == Len(tokens) = 9 /\ tokens[4].type = "MULTIPLY"

RECURSIVE OddPart(_)
OddPart(n) == IF n % 2 = 0 THEN OddPart(n \div 2) ELSE n

RECURSIVE SubNodes(_)
SubNodes(e) ==
    IF e.node = "BinOp" THEN {e} \cup SubNodes(e.left) \cup SubNodes(e.right) ELSE {e}

\* C10: the variables start empty; evaluating a Number, Identifier or BinOp
\* node leaves them as they are, with or without an exception; only the
\* successful evaluation of an Assign changes them, and only at its name.
C10_OnlyAssignChanges ==
    /\ variables = NoVariables
    /\ [][/\ \A k \in 1..Len(ast) : \A e \in SubNodes(ast[k].expr) :
                evaluate(e, variables).variables = variables
          /\ variables' # variables =>
                /\ pc = "eval" /\ pc' = "eval" /\ idx' = idx + 1
                /\ ast[idx'].node = "Assign"
                /\ DOMAIN variables' = DOMAIN variables \cup {ast[idx'].identifier.name}
                /\ variables'[ast[idx'].identifier.name] = results'[idx']
                /\ \A n \in DOMAIN variables \ {ast[idx'].identifier.name} :
                       variables'[n] = variables[n]]_vars

\* y = x + 1 has set y and left x as it was.
C10_Witness ==
    /\ pc = "eval"
    /\ code = <<"x", "=", "1", "\n", "y", "=", "x", "+", "1">>
    /\ idx = 2
    /\ variables[X] = PyInt(1)
    /\ variables[<<"y">>] = PyInt(2)


=============================================================================
